---------------------------- MODULE Spec2Model ----------------------------
(***************************************************************************)
(* Model of place_hours_filter.py: the PlaceHoursFilter class (parse_time, *)
(* parse_day, parse_hours_string, is_place_open, filter_open_places,       *)
(* load_places_from_file) and the command line entry point main().         *)
(*                                                                         *)
(* A Python str is a sequence of one-character strings; the en dash        *)
(* U+2013 is the character EnDash.  A dict is a function from its keys; a  *)
(* list of dicts is a sequence of references into a heap of dicts, so that *)
(* dict.copy() and dict.pop() act on objects as they do in Python.         *)
(***************************************************************************)
EXTENDS Integers, Sequences, FiniteSets, TLC

(***************************************************************************)
(* Bounds of the model.                                                    *)
(***************************************************************************)
\* most comma separated segments in a generated schedule string
MaxSegments == 2
\* most entries in the hours list of a generated place
MaxEntries == 2
\* most places in a generated input list
MaxPlaces == 2

(***************************************************************************)
(* Characters and the str methods the code uses.                           *)
(***************************************************************************)
EnDash == "endash"

\* F(x) with x evaluated once, as an assignment to a local evaluates it
Let(x, F(_)) == CHOOSE r \in {F(v) : v \in {x}} : TRUE

Digits == <<"0", "1", "2", "3", "4", "5", "6", "7", "8", "9">>

UpperLetters ==
    <<"A", "B", "C", "D", "E", "F", "G", "H", "I", "J", "K", "L", "M",
      "N", "O", "P", "Q", "R", "S", "T", "U", "V", "W", "X", "Y", "Z">>

LowerLetters ==
    <<"a", "b", "c", "d", "e", "f", "g", "h", "i", "j", "k", "l", "m",
      "n", "o", "p", "q", "r", "s", "t", "u", "v", "w", "x", "y", "z">>

IsDigit(c) == \E k \in 1..Len(Digits) : Digits[k] = c

\* int() of one decimal digit
DigitVal(c) == (CHOOSE k \in 1..Len(Digits) : Digits[k] = c) - 1

\* \s of the re module, over the characters of the model
IsSpace(c) == c = " "

LowerChar(c) ==
    IF \E k \in 1..Len(UpperLetters) : UpperLetters[k] = c
    THEN LowerLetters[CHOOSE k \in 1..Len(UpperLetters) : UpperLetters[k] = c]
    ELSE c

UpperChar(c) ==
    IF \E k \in 1..Len(LowerLetters) : LowerLetters[k] = c
    THEN UpperLetters[CHOOSE k \in 1..Len(LowerLetters) : LowerLetters[k] = c]
    ELSE c

\* str.lower()
lower(s) == [k \in 1..Len(s) |-> LowerChar(s[k])]

\* str.upper()
upper(s) == [k \in 1..Len(s) |-> UpperChar(s[k])]

\* str.strip()
RECURSIVE lstrip(_)
lstrip(s) == IF s # <<>> /\ IsSpace(Head(s)) THEN lstrip(Tail(s)) ELSE s

RECURSIVE rstrip(_)
rstrip(s) ==
    IF s # <<>> /\ IsSpace(s[Len(s)])
    THEN rstrip(SubSeq(s, 1, Len(s) - 1))
    ELSE s

strip(s) == rstrip(lstrip(s))

\* s.startswith(prefix)
startswith(s, prefix) ==
    /\ Len(prefix) <= Len(s)
    /\ SubSeq(s, 1, Len(prefix)) = prefix

\* whether sub occurs in s at index i
OccursAt(s, sub, i) ==
    /\ i + Len(sub) - 1 <= Len(s)
    /\ SubSeq(s, i, i + Len(sub) - 1) = sub

\* sub in s
Contains(s, sub) == \E i \in 1..(Len(s) + 1) : OccursAt(s, sub, i)

\* s.split(","): the pieces between commas, empty pieces kept
RECURSIVE SplitFrom(_, _, _)
SplitFrom(s, i, piece) ==
    IF i > Len(s) THEN <<piece>>
    ELSE IF s[i] = "," THEN <<piece>> \o SplitFrom(s, i + 1, <<>>)
    ELSE SplitFrom(s, i + 1, Append(piece, s[i]))

split_comma(s) == SplitFrom(s, 1, <<>>)

(***************************************************************************)
(* The regular expressions.                                                *)
(***************************************************************************)
\* \d{1,2}:\d{2} at index i: the index after it, or 0 when it does not match
ClockEnd(s, i) ==
    IF /\ i + 4 <= Len(s)
       /\ IsDigit(s[i]) /\ IsDigit(s[i + 1]) /\ s[i + 2] = ":"
       /\ IsDigit(s[i + 3]) /\ IsDigit(s[i + 4])
    THEN i + 5
    ELSE IF /\ i + 3 <= Len(s)
            /\ IsDigit(s[i]) /\ s[i + 1] = ":"
            /\ IsDigit(s[i + 2]) /\ IsDigit(s[i + 3])
    THEN i + 4
    ELSE 0

\* group 1 and group 2 of (\d{1,2}):(\d{2}) matched at index i, as integers
ClockHour(s, i) ==
    IF s[i + 1] = ":" THEN DigitVal(s[i])
    ELSE 10 * DigitVal(s[i]) + DigitVal(s[i + 1])

ClockMinute(s, i) ==
    LET e == ClockEnd(s, i) IN 10 * DigitVal(s[e - 2]) + DigitVal(s[e - 1])

\* \s* from index j: the index of the first character that is not a space
RECURSIVE SkipSpaces(_, _)
SkipSpaces(s, j) ==
    IF j <= Len(s) /\ IsSpace(s[j]) THEN SkipSpaces(s, j + 1) ELSE j

\* (AM|PM) at index j, case sensitive
PeriodAt(s, j) == OccursAt(s, <<"A", "M">>, j) \/ OccursAt(s, <<"P", "M">>, j)

\* \d{1,2}:\d{2}\s*(?:AM|PM)? at index i, greedy: the index after it, or 0
StampEnd(s, i) ==
    LET e == ClockEnd(s, i)
        w == SkipSpaces(s, e)
    IN  IF e = 0 THEN 0
        ELSE IF PeriodAt(s, w) THEN w + 2
        ELSE w

\* time_pattern at index i:
\* (\d{1,2}:\d{2}\s*(?:AM|PM)?)\s*[EnDash-]\s*(\d{1,2}:\d{2}\s*(?:AM|PM)?)
RangeAt(s, i) ==
    LET p == StampEnd(s, i)
        d == SkipSpaces(s, p)
        q == SkipSpaces(s, d + 1)
        r == StampEnd(s, q)
    IN  IF /\ p # 0
           /\ d <= Len(s)
           /\ s[d] \in {EnDash, "-"}
           /\ r # 0
        THEN [matched |-> TRUE,
              group1 |-> SubSeq(s, i, p - 1),
              group2 |-> SubSeq(s, q, r - 1)]
        ELSE [matched |-> FALSE, group1 |-> <<>>, group2 |-> <<>>]

\* re.search(time_pattern, s): the leftmost match, scanning from index i
RECURSIVE search_time_pattern_from(_, _)
search_time_pattern_from(s, i) ==
    IF i > Len(s)
    THEN [matched |-> FALSE, group1 |-> <<>>, group2 |-> <<>>]
    ELSE IF StampEnd(s, i) # 0 /\ RangeAt(s, i).matched
    THEN RangeAt(s, i)
    ELSE search_time_pattern_from(s, i + 1)

search_time_pattern(s) == search_time_pattern_from(s, 1)

\* (\d{1,2}):(\d{2})\s*(AM|PM) at index i
PeriodClockAt(s, i) ==
    LET e == ClockEnd(s, i) IN e # 0 /\ PeriodAt(s, SkipSpaces(s, e))

\* re.search of that pattern: the leftmost index from i on, 0 when none
RECURSIVE LeftmostPeriodClock(_, _)
LeftmostPeriodClock(s, i) ==
    IF i > Len(s) THEN 0
    ELSE IF PeriodClockAt(s, i) THEN i
    ELSE LeftmostPeriodClock(s, i + 1)

\* re.search of (\d{1,2}):(\d{2}): the leftmost index from i on, 0 when none
RECURSIVE LeftmostClock(_, _)
LeftmostClock(s, i) ==
    IF i > Len(s) THEN 0
    ELSE IF ClockEnd(s, i) # 0 THEN i
    ELSE LeftmostClock(s, i + 1)

(***************************************************************************)
(* datetime.time and PlaceHoursFilter.parse_time.                          *)
(***************************************************************************)
\* a raised ValueError
ValueError == [raised |-> TRUE, hour |-> -1, minute |-> -1]

\* datetime.time(hour, minute): ValueError outside 0..23 and 0..59
time(hour, minute) ==
    IF hour \in 0..23 /\ minute \in 0..59
    THEN [raised |-> FALSE, hour |-> hour, minute |-> minute]
    ELSE ValueError

\* a <= b on datetime.time values
TimeLE(a, b) ==
    \/ a.hour < b.hour
    \/ a.hour = b.hour /\ a.minute <= b.minute

\* the variant of to_24_hour that adds 12 to every PM hour
to_24_hour_pm_adds_always(hour, period) ==
    IF period = "A" /\ hour = 12 THEN 0
    ELSE IF period = "P" THEN hour + 12
    ELSE hour

\* lines 50-53: period is the first letter of the matched AM or PM
to_24_hour(hour, period) ==
    IF period = "A" /\ hour = 12 THEN 0
    ELSE IF period = "P" /\ hour # 12 THEN hour + 12
    ELSE hour

\* lines 42-64, on the stripped upper case string s
parse_stripped_time(s) ==
    IF Contains(s, <<"A", "M">>) \/ Contains(s, <<"P", "M">>)
    THEN Let(LeftmostPeriodClock(s, 1), LAMBDA i :
             IF i = 0 THEN ValueError
             ELSE time(to_24_hour(ClockHour(s, i),
                                  s[SkipSpaces(s, ClockEnd(s, i))]),
                       ClockMinute(s, i)))
    ELSE Let(LeftmostClock(s, 1), LAMBDA i :
             IF i = 0 THEN ValueError
             ELSE time(ClockHour(s, i), ClockMinute(s, i)))

parse_time(time_str) == Let(upper(strip(time_str)), parse_stripped_time)

(***************************************************************************)
(* PlaceHoursFilter.parse_day.                                             *)
(***************************************************************************)
Monday == <<"M", "o", "n", "d", "a", "y">>

Tuesday == <<"T", "u", "e", "s", "d", "a", "y">>

Wednesday == <<"W", "e", "d", "n", "e", "s", "d", "a", "y">>

Thursday == <<"T", "h", "u", "r", "s", "d", "a", "y">>

Friday == <<"F", "r", "i", "d", "a", "y">>

Saturday == <<"S", "a", "t", "u", "r", "d", "a", "y">>

Sunday == <<"S", "u", "n", "d", "a", "y">>

\* self.day_mapping, as <<key, value>> pairs
day_mapping ==
    << << <<"m", "o", "n", "d", "a", "y">>, Monday >>,
       << <<"t", "u", "e", "s", "d", "a", "y">>, Tuesday >>,
       << <<"w", "e", "d", "n", "e", "s", "d", "a", "y">>, Wednesday >>,
       << <<"t", "h", "u", "r", "s", "d", "a", "y">>, Thursday >>,
       << <<"f", "r", "i", "d", "a", "y">>, Friday >>,
       << <<"s", "a", "t", "u", "r", "d", "a", "y">>, Saturday >>,
       << <<"s", "u", "n", "d", "a", "y">>, Sunday >>,
       << <<"m", "o", "n">>, Monday >>,
       << <<"t", "u", "e">>, Tuesday >>,
       << <<"w", "e", "d">>, Wednesday >>,
       << <<"t", "h", "u">>, Thursday >>,
       << <<"f", "r", "i">>, Friday >>,
       << <<"s", "a", "t">>, Saturday >>,
       << <<"s", "u", "n">>, Sunday >> >>

\* a raised ValueError where a str is returned otherwise
InvalidDay == [raised |-> TRUE, day |-> <<>>]

parse_day(day_str) ==
    Let(lower(strip(day_str)), LAMBDA day_lower :
        IF \E k \in 1..Len(day_mapping) : day_mapping[k][1] = day_lower
        THEN [raised |-> FALSE,
              day |-> day_mapping[CHOOSE k \in 1..Len(day_mapping) :
                                      day_mapping[k][1] = day_lower][2]]
        ELSE InvalidDay)

(***************************************************************************)
(* PlaceHoursFilter.parse_hours_string.                                    *)
(***************************************************************************)
\* the variant of mentions_closed that compares without lower()
mentions_closed_case_sensitive(hours_str) ==
    Contains(hours_str, <<"c", "l", "o", "s", "e", "d">>)

\* line 78: "closed" in hours_str.lower()
mentions_closed(hours_str) ==
    Let(lower(hours_str), LAMBDA lowered :
        Contains(lowered, <<"c", "l", "o", "s", "e", "d">>))

\* the variant of mentions_24_hours that compares without lower()
mentions_24_hours_case_sensitive(hours_str) ==
    \/ Contains(hours_str, <<"2", "4", " ", "h", "o", "u", "r", "s">>)
    \/ Contains(hours_str,
           <<"o", "p", "e", "n", " ", "2", "4", " ", "h", "o", "u", "r", "s">>)

\* line 80: "24 hours" in hours_str.lower() or "open 24 hours" in ...
mentions_24_hours(hours_str) ==
    Let(lower(hours_str), LAMBDA lowered :
        \/ Contains(lowered, <<"2", "4", " ", "h", "o", "u", "r", "s">>)
        \/ Contains(lowered,
               <<"o", "p", "e", "n", " ", "2", "4", " ", "h", "o", "u", "r", "s">>))

\* the variant of parse_ranges whose except clause ends the loop (break)
RECURSIVE parse_ranges_break(_, _, _, _)
parse_ranges_break(ranges, k, time_ranges, stdout) ==
    IF k > Len(ranges)
    THEN [time_ranges |-> time_ranges, stdout |-> stdout]
    ELSE
      Let(strip(ranges[k]), LAMBDA range_str :
      Let(search_time_pattern(range_str), LAMBDA match :
        IF ~match.matched
        THEN parse_ranges_break(ranges, k + 1, time_ranges, stdout)
        ELSE
          Let(parse_time(match.group1), LAMBDA start_time :
          Let(IF start_time.raised THEN ValueError
              ELSE parse_time(match.group2), LAMBDA end_time :
            IF end_time.raised
            THEN [time_ranges |-> time_ranges,
                  stdout |-> Append(stdout, [warning |-> range_str])]
            ELSE parse_ranges_break(ranges, k + 1,
                     Append(time_ranges, <<start_time, end_time>>),
                     stdout)))))

\* lines 90-107: the loop over the comma separated ranges, from index k;
\* stdout collects the warnings printed.  A ValueError of the first
\* parse_time leaves the second one uncalled.
RECURSIVE parse_ranges(_, _, _, _)
parse_ranges(ranges, k, time_ranges, stdout) ==
    IF k > Len(ranges)
    THEN [time_ranges |-> time_ranges, stdout |-> stdout]
    ELSE
      Let(strip(ranges[k]), LAMBDA range_str :
      Let(search_time_pattern(range_str), LAMBDA match :
        IF ~match.matched
        THEN parse_ranges(ranges, k + 1, time_ranges, stdout)
        ELSE
          Let(parse_time(match.group1), LAMBDA start_time :
          Let(IF start_time.raised THEN ValueError
              ELSE parse_time(match.group2), LAMBDA end_time :
            IF end_time.raised
            THEN parse_ranges(ranges, k + 1, time_ranges,
                     Append(stdout, [warning |-> range_str]))
            ELSE parse_ranges(ranges, k + 1,
                     Append(time_ranges, <<start_time, end_time>>),
                     stdout)))))

\* lines 77-109, on the stripped string s
parse_stripped_hours(s) ==
    IF mentions_closed(s)
    THEN [time_ranges |-> <<>>, stdout |-> <<>>]
    ELSE IF mentions_24_hours(s)
    THEN [time_ranges |-> << <<time(0, 0), time(23, 59)>> >>, stdout |-> <<>>]
    ELSE Let(split_comma(s), LAMBDA ranges :
             parse_ranges(ranges, 1, <<>>, <<>>))

parse_hours_string(hours_str) == Let(strip(hours_str), parse_stripped_hours)

(***************************************************************************)
(* dicts and lists of dicts: a heap is a sequence of dicts, a reference    *)
(* is an index into it.                                                    *)
(***************************************************************************)
\* the variant of dict_copy that returns the dict itself (place_copy = place)
dict_copy_alias(heap, ref) == [heap |-> heap, ref |-> ref]

\* dict.copy(): a new dict with the same items
dict_copy(heap, ref) ==
    [heap |-> Append(heap, heap[ref]), ref |-> Len(heap) + 1]

\* the variant of dict_pop that removes nothing
dict_pop_nothing(heap, ref, key) == heap

\* dict.pop(key, None): the key is removed from the dict at ref
dict_pop(heap, ref, key) ==
    [heap EXCEPT ![ref] = [k \in (DOMAIN heap[ref]) \ {key} |-> heap[ref][k]]]

(***************************************************************************)
(* PlaceHoursFilter.is_place_open.                                         *)
(***************************************************************************)
\* the variant of find_day_hours without the break: the last match is kept
RECURSIVE find_day_hours_last(_, _, _)
find_day_hours_last(hours, k, query_day) ==
    IF k > Len(hours) THEN 0
    ELSE LET later == find_day_hours_last(hours, k + 1, query_day)
         IN  IF later # 0 THEN later
             ELSE IF startswith(hours[k], query_day \o <<":">>) THEN k
             ELSE 0

\* lines 119-123: the index of the first entry from k on that starts with
\* query_day + ":", or 0 when day_hours stays None
RECURSIVE find_day_hours(_, _, _)
find_day_hours(hours, k, query_day) ==
    IF k > Len(hours) THEN 0
    ELSE IF startswith(hours[k], query_day \o <<":">>) THEN k
    ELSE find_day_hours(hours, k + 1, query_day)

\* the variant of in_range with an exclusive start
in_range_exclusive_start(start_time, query_time, end_time) ==
    /\ TimeLE(start_time, query_time)
    /\ start_time # query_time
    /\ TimeLE(query_time, end_time)

\* line 133: start_time <= query_time <= end_time
in_range(start_time, query_time, end_time) ==
    TimeLE(start_time, query_time) /\ TimeLE(query_time, end_time)

\* lines 132-136: the scan of time_ranges from index k
RECURSIVE scan_ranges(_, _, _)
scan_ranges(time_ranges, k, query_time) ==
    IF k > Len(time_ranges) THEN FALSE
    ELSE IF in_range(time_ranges[k][1], query_time, time_ranges[k][2]) THEN TRUE
    ELSE scan_ranges(time_ranges, k + 1, query_time)

is_place_open(place, query_time, query_day) ==
    IF "hours" \notin DOMAIN place \/ place["hours"] = <<>>
    THEN FALSE
    ELSE Let(find_day_hours(place["hours"], 1, query_day), LAMBDA k :
         IF k = 0 THEN FALSE
         ELSE Let(parse_hours_string(place["hours"][k]).time_ranges,
                  LAMBDA time_ranges :
                      scan_ranges(time_ranges, 1, query_time)))

(***************************************************************************)
(* PlaceHoursFilter.filter_open_places.                                    *)
(***************************************************************************)
\* lines 144-149: the loop over places (a list of references) from index k
RECURSIVE filter_loop(_, _, _, _, _, _)
filter_loop(heap, places, k, open_places, query_time, query_day) ==
    IF k > Len(places)
    THEN [heap |-> heap, open_places |-> open_places]
    ELSE IF is_place_open(heap[places[k]], query_time, query_day)
    THEN Let(dict_copy(heap, places[k]), LAMBDA place_copy :
         Let(dict_pop(place_copy.heap, place_copy.ref, "hours"),
             LAMBDA popped :
                 filter_loop(popped, places, k + 1,
                             Append(open_places, place_copy.ref),
                             query_time, query_day)))
    ELSE filter_loop(heap, places, k + 1, open_places, query_time, query_day)

filter_open_places(heap, places, query_time, query_day) ==
    filter_loop(heap, places, 1, <<>>, query_time, query_day)

\* the dicts a list of references denotes
Deref(heap, refs) == [k \in 1..Len(refs) |-> heap[refs[k]]]

(***************************************************************************)
(* PlaceHoursFilter.load_places_from_file.  A file is missing, is not      *)
(* JSON, or holds a JSON object data.                                      *)
(***************************************************************************)
\* the variant of load_places_from_file that does not look at "success"
load_places_from_file_any_success(file) ==
    IF file.kind = "missing"
    THEN [raised |-> TRUE, error |-> "FileNotFoundError", places |-> <<>>]
    ELSE IF file.kind = "malformed"
    THEN [raised |-> TRUE, error |-> "ValueError", places |-> <<>>]
    ELSE IF "places" \notin DOMAIN file.data
    THEN [raised |-> TRUE, error |-> "ValueError", places |-> <<>>]
    ELSE [raised |-> FALSE, error |-> "", places |-> file.data["places"]]

load_places_from_file(file) ==
    IF file.kind = "missing"
    THEN [raised |-> TRUE, error |-> "FileNotFoundError", places |-> <<>>]
    ELSE IF file.kind = "malformed"
    THEN [raised |-> TRUE, error |-> "ValueError", places |-> <<>>]
    ELSE IF \/ "success" \notin DOMAIN file.data
            \/ ~file.data["success"]
            \/ "places" \notin DOMAIN file.data
    THEN [raised |-> TRUE, error |-> "ValueError", places |-> <<>>]
    ELSE [raised |-> FALSE, error |-> "", places |-> file.data["places"]]

(***************************************************************************)
(* Inputs.  Schedule strings are built from the segments below, joined     *)
(* with ", ".  Each segment is listed with what the code makes of it when  *)
(* it stands alone: a range with its two times, no match of time_pattern,  *)
(* a match whose times raise ValueError, or one of the two special cases.  *)
(***************************************************************************)
Segment(text, kind, open, close) ==
    [text |-> text, kind |-> kind, open |-> open, close |-> close]

NoTime == [hour |-> -1, minute |-> -1]

HM(hour, minute) == [hour |-> hour, minute |-> minute]

\* (in the comments -- stands for the en dash)
SegmentPool ==
    <<
      \* 1: "11:00 AM -- 2:00 PM"
      Segment(<<"1", "1", ":", "0", "0", " ", "A", "M", " ", EnDash, " ", "2", ":", "0", "0", " ", "P", "M">>,
              "range", HM(11, 0), HM(14, 0)),
      \* 2: "5:00 -- 9:00 PM"
      Segment(<<"5", ":", "0", "0", " ", EnDash, " ", "9", ":", "0", "0", " ", "P", "M">>,
              "range", HM(5, 0), HM(21, 0)),
      \* 3: "9:00 AM -- 5:00 PM"
      Segment(<<"9", ":", "0", "0", " ", "A", "M", " ", EnDash, " ", "5", ":", "0", "0", " ", "P", "M">>,
              "range", HM(9, 0), HM(17, 0)),
      \* 4: "12:30AM-12:15PM"
      Segment(<<"1", "2", ":", "3", "0", "A", "M", "-", "1", "2", ":", "1", "5", "P", "M">>,
              "range", HM(0, 30), HM(12, 15)),
      \* 5: "10:00 PM -- 2:00 AM"
      Segment(<<"1", "0", ":", "0", "0", " ", "P", "M", " ", EnDash, " ", "2", ":", "0", "0", " ", "A", "M">>,
              "range", HM(22, 0), HM(2, 0)),
      \* 6: "9:00 am -- 5:00 pm"
      Segment(<<"9", ":", "0", "0", " ", "a", "m", " ", EnDash, " ", "5", ":", "0", "0", " ", "p", "m">>,
              "nomatch", NoTime, NoTime),
      \* 7: "By appointment"
      Segment(<<"B", "y", " ", "a", "p", "p", "o", "i", "n", "t", "m", "e", "n", "t">>,
              "nomatch", NoTime, NoTime),
      \* 8: "13:00 PM -- 2:00 PM"
      Segment(<<"1", "3", ":", "0", "0", " ", "P", "M", " ", EnDash, " ", "2", ":", "0", "0", " ", "P", "M">>,
              "unparsable", NoTime, NoTime),
      \* 9: "Closed"
      Segment(<<"C", "l", "o", "s", "e", "d">>,
              "closed", NoTime, NoTime),
      \* 10: "Open 24 hours"
      Segment(<<"O", "p", "e", "n", " ", "2", "4", " ", "h", "o", "u", "r", "s">>,
              "24 hours", NoTime, NoTime),
      \* 11: "24 HOURS"
      Segment(<<"2", "4", " ", "H", "O", "U", "R", "S">>,
              "24 hours", NoTime, NoTime)
    >>

SegmentIds == 1..Len(SegmentPool)

\* the sequences of 1..n segment ids
SegmentSeqs(n) == UNION {[1..k -> SegmentIds] : k \in 1..n}

\* ", ".join of the texts of the segments
RECURSIVE JoinSegments(_)
JoinSegments(segs) ==
    IF Len(segs) = 1 THEN SegmentPool[segs[1]].text
    ELSE SegmentPool[segs[1]].text \o <<",", " ">> \o JoinSegments(Tail(segs))

\* an hours entry: "<day>: <schedule>"
Entry(day, segs) == day \o <<":", " ">> \o JoinSegments(segs)

\* the kinds of the segments of a schedule
Kinds(segs) == {SegmentPool[segs[k]].kind : k \in 1..Len(segs)}

\* the time tokens given to parse_time: h:MM or hh:MM, then a suffix
TwoDigits(n) == <<Digits[(n \div 10) + 1], Digits[(n % 10) + 1]>>

HourDigits(h, pad) ==
    IF h >= 10 \/ pad THEN TwoDigits(h) ELSE <<Digits[h + 1]>>

Suffixes ==
    { [text |-> <<>>, period |-> ""],
      [text |-> <<" ", "A", "M">>, period |-> "AM"],
      [text |-> <<" ", "P", "M">>, period |-> "PM"],
      [text |-> <<"a", "m">>, period |-> "AM"],
      [text |-> <<" ", " ", "p", "M", " ">>, period |-> "PM"] }

TimeToken(h, m, pad, sfx) ==
    [time_str |-> HourDigits(h, pad) \o <<":">> \o TwoDigits(m) \o sfx.text,
     hour |-> h, minute |-> m, period |-> sfx.period]

ClockTokens ==
    {TimeToken(h, m, pad, sfx) :
        h \in 0..24, m \in 0..60, pad \in {FALSE}, sfx \in Suffixes}
    \cup
    {TimeToken(h, m, pad, sfx) :
        h \in 0..9, m \in {0, 30}, pad \in {TRUE}, sfx \in Suffixes}

\* tokens in which neither regular expression finds a time
JunkTokens ==
    { [time_str |-> <<"n", "o", "o", "n">>,
       hour |-> -1, minute |-> -1, period |-> "junk"],
      [time_str |-> <<"A", "M", " ", "5", ":", "0", "0">>,
       hour |-> -1, minute |-> -1, period |-> "junk"],
      [time_str |-> <<"5", " ", "P", "M">>,
       hour |-> -1, minute |-> -1, period |-> "junk"],
      [time_str |-> <<"1", "4", ":", "3">>,
       hour |-> -1, minute |-> -1, period |-> "junk"],
      [time_str |-> <<>>,
       hour |-> -1, minute |-> -1, period |-> "junk"] }

\* the day tokens given to parse_day: each key of day_mapping as it is, in
\* upper case and padded, and tokens that are no key
Capitalize(s) == <<UpperChar(s[1])>> \o Tail(s)

DayTokens ==
    UNION { { day_mapping[k][1], upper(day_mapping[k][1]),
              Capitalize(day_mapping[k][1]),
              <<" ">> \o day_mapping[k][1] \o <<" ">> } :
            k \in 1..Len(day_mapping) }
    \cup { <<"F", "u", "n", "d", "a", "y">>, <<"M", "o">>, <<>> }

\* query times and days
QueryTimes ==
    { time(0, 0), time(8, 59), time(9, 0), time(13, 0), time(15, 0),
      time(17, 0), time(17, 1), time(18, 0), time(23, 59) }

QueryDays == {Monday, Tuesday}

\* the entries of generated hours lists (the segments are numbered as in
\* SegmentPool); the day of the last one is not a canonical day name
EntryPool ==
    { Entry(Monday, <<3>>), Entry(Monday, <<1, 2>>), Entry(Monday, <<9>>),
      Entry(Tuesday, <<3>>), Entry(Tuesday, <<9>>),
      Entry(lower(Monday), <<10>>) }

\* places for is_place_open: without hours, with an empty hours list and
\* with up to MaxEntries entries, each asked about on every query day; and
\* with one Monday entry of any schedule, asked about on Monday
ListedHours ==
    { [name |-> "no hours"], [name |-> "empty hours", hours |-> <<>>] }
    \cup
    { [name |-> "listed", hours |-> hours] :
        hours \in UNION {[1..n -> EntryPool] : n \in 1..MaxEntries} }

\* segs: the segments of the single entry, <<>> for the other places
ListedInputs ==
    { [place |-> place, query_time |-> t, query_day |-> day, segs |-> <<>>] :
        place \in ListedHours, t \in QueryTimes, day \in QueryDays }

SingleInputs ==
    { [place |-> [name |-> "single", hours |-> <<Entry(Monday, segs)>>],
       query_time |-> t, query_day |-> Monday, segs |-> segs] :
        segs \in SegmentSeqs(MaxSegments), t \in QueryTimes }

\* places for filter_open_places and for the input file of main
ListedPlaces ==
    { [name |-> "Cafe", id |-> 1,
       hours |-> <<Entry(Monday, <<3>>), Entry(Tuesday, <<9>>)>>],
      [name |-> "Bistro", id |-> 2, tags |-> <<"food">>,
       hours |-> <<Entry(Monday, <<1, 2>>)>>],
      [name |-> "Park", id |-> 3],
      [id |-> 4, hours |-> <<Entry(Monday, <<10>>), Entry(Tuesday, <<10>>)>>] }

PlaceLists == UNION {[1..n -> ListedPlaces] : n \in 0..MaxPlaces}

FilterTimes == {time(13, 0), time(15, 0), time(23, 0)}

\* the command lines and input files of main
TimeArgs ==
    { <<"2", ":", "3", "0", " ", "P", "M">>,
      <<"1", "1", ":", "0", "0", " ", "p", "m">>,
      <<"2", "5", ":", "0", "0">>, <<"n", "o", "o", "n">> }

DayArgs ==
    { <<"M", "O", "N">>, <<" ", "t", "u", "e", " ">>,
      <<"F", "u", "n", "d", "a", "y">> }

Files ==
    { [kind |-> "missing"], [kind |-> "malformed"],
      [kind |-> "json", data |-> [success |-> FALSE, places |-> <<>>]],
      [kind |-> "json", data |-> [places |-> <<>>]],
      [kind |-> "json", data |-> [success |-> TRUE]] }
    \cup
    { [kind |-> "json", data |-> [success |-> TRUE, places |-> l]] :
        l \in PlaceLists }

\* --output: not given, a path that can be opened for writing, one that cannot
Outputs == {"none", "writable", "unwritable"}

(***************************************************************************)
(* State.  A run is either one call of a method of PlaceHoursFilter (op,   *)
(* arg, ret, and for filter_open_places the heap) or one run of main (pc   *)
(* and its locals).                                                        *)
(***************************************************************************)
VARIABLES
    op,           \* the method called, "main" for a run of main, or "none"
    arg,          \* the arguments of the call
    ret,          \* what the call returned
    heap,         \* the dicts that exist
    places,       \* the input list: references to the place dicts
    open_places,  \* the list filter_open_places returned: references
    pc,           \* where main is
    argv,         \* args of main: time, day, file, output
    query_time,   \* main's query_time
    query_day,    \* main's query_day
    error,        \* the exception main caught, "" when none
    exit_code,    \* the exit status of main, -1 while it has not exited
    out_file      \* the documents written to args.output in this run

vars == <<op, arg, ret, heap, places, open_places, pc, argv, query_time,
          query_day, error, exit_code, out_file>>

call_vars == <<op, arg, ret>>

list_vars == <<heap, places, open_places>>

main_vars == <<pc, argv, query_time, query_day, error, exit_code, out_file>>

Init ==
    /\ op = "none"
    /\ arg = <<>>
    /\ ret = <<>>
    /\ heap = <<>>
    /\ places = <<>>
    /\ open_places = <<>>
    /\ pc = "idle"
    /\ argv = <<>>
    /\ query_time = <<>>
    /\ query_day = <<>>
    /\ error = ""
    /\ exit_code = -1
    /\ out_file = <<>>

\* nothing has run yet
Fresh == op = "none" /\ pc = "idle"

(***************************************************************************)
(* Calls of the methods.                                                   *)
(***************************************************************************)
ParseTimeCall ==
    /\ Fresh
    /\ \E token \in ClockTokens \cup JunkTokens :
        /\ op' = "parse_time"
        /\ arg' = token
        /\ ret' = parse_time(token.time_str)
    /\ UNCHANGED <<list_vars, main_vars>>

ParseDayCall ==
    /\ Fresh
    /\ \E token \in DayTokens :
        /\ op' = "parse_day"
        /\ arg' = [day_str |-> token]
        /\ ret' = parse_day(token)
    /\ UNCHANGED <<list_vars, main_vars>>

\* parse_hours_string on a schedule, alone or as is_place_open passes it
\* (the whole entry, with its day prefix)
ParseHoursCall ==
    /\ Fresh
    /\ \E segs \in SegmentSeqs(MaxSegments), whole_entry \in BOOLEAN :
        \E hours_str \in {IF whole_entry THEN Entry(Monday, segs)
                           ELSE JoinSegments(segs)} :
            /\ op' = "parse_hours_string"
            /\ arg' = [hours_str |-> hours_str, segs |-> segs,
                       whole_entry |-> whole_entry]
            /\ ret' = parse_hours_string(hours_str)
    /\ UNCHANGED <<list_vars, main_vars>>

IsPlaceOpenOn(input) ==
    /\ op' = "is_place_open"
    /\ arg' = input
    /\ ret' = is_place_open(input.place, input.query_time, input.query_day)

IsPlaceOpenCall ==
    /\ Fresh
    /\ \/ \E input \in ListedInputs : IsPlaceOpenOn(input)
       \/ \E input \in SingleInputs : IsPlaceOpenOn(input)
    /\ UNCHANGED <<list_vars, main_vars>>

\* the caller's list is places (heap holds its dicts) before the call; arg
\* records the dicts as they were when the call was made
FilterOpenPlacesCall ==
    /\ Fresh
    /\ \E list \in PlaceLists, t \in FilterTimes, day \in QueryDays :
        \E done \in {filter_open_places(list, [k \in 1..Len(list) |-> k],
                                         t, day)} :
            /\ op' = "filter_open_places"
            /\ arg' = [places |-> list, query_time |-> t, query_day |-> day]
            /\ places' = [k \in 1..Len(list) |-> k]
            /\ heap' = done.heap
            /\ open_places' = done.open_places
            /\ ret' = Deref(done.heap, done.open_places)
    /\ UNCHANGED main_vars

(***************************************************************************)
(* main, lines 171-252.                                                    *)
(***************************************************************************)
\* line 187: args = parser.parse_args()
MainParseArgs ==
    /\ Fresh
    /\ \E t \in TimeArgs, d \in DayArgs, f \in Files, o \in Outputs :
        argv' = [time |-> t, day |-> d, file |-> f, output |-> o]
    /\ op' = "main"
    /\ pc' = "parse_time"
    /\ UNCHANGED <<arg, ret, list_vars, query_time, query_day, error,
                   exit_code, out_file>>

\* line 194
MainParseTime ==
    /\ pc = "parse_time"
    /\ \E t \in {parse_time(argv.time)} :
       IF t.raised
       THEN /\ pc' = "except"
            /\ error' = "ValueError"
            /\ UNCHANGED query_time
       ELSE /\ pc' = "parse_day"
            /\ query_time' = t
            /\ UNCHANGED error
    /\ UNCHANGED <<call_vars, list_vars, argv, query_day, exit_code, out_file>>

\* line 195
MainParseDay ==
    /\ pc = "parse_day"
    /\ \E d \in {parse_day(argv.day)} :
       IF d.raised
       THEN /\ pc' = "except"
            /\ error' = "ValueError"
            /\ UNCHANGED query_day
       ELSE /\ pc' = "load"
            /\ query_day' = d.day
            /\ UNCHANGED error
    /\ UNCHANGED <<call_vars, list_vars, argv, query_time, exit_code, out_file>>

\* line 198
MainLoad ==
    /\ pc = "load"
    /\ \E loaded \in {load_places_from_file(argv.file)} :
       IF loaded.raised
       THEN /\ pc' = "except"
            /\ error' = loaded.error
            /\ UNCHANGED <<heap, places>>
       ELSE /\ pc' = "filter"
            /\ heap' = loaded.places
            /\ places' = [k \in 1..Len(loaded.places) |-> k]
            /\ UNCHANGED error
    /\ UNCHANGED <<call_vars, open_places, argv, query_time, query_day,
                   exit_code, out_file>>

\* line 201
MainFilter ==
    /\ pc = "filter"
    /\ \E done \in {filter_open_places(heap, places, query_time, query_day)} :
        /\ heap' = done.heap
        /\ open_places' = done.open_places
    /\ pc' = "display"
    /\ UNCHANGED <<call_vars, places, argv, query_time, query_day, error,
                   exit_code, out_file>>

\* lines 204-233: place['name'] and place['id'] of every open place are
\* printed, a KeyError when one of them is missing
MainDisplay ==
    /\ pc = "display"
    /\ IF \E k \in 1..Len(open_places) :
            {"name", "id"} \ DOMAIN heap[open_places[k]] # {}
       THEN /\ pc' = "except"
            /\ error' = "KeyError"
       ELSE /\ pc' = "save"
            /\ UNCHANGED error
    /\ UNCHANGED <<call_vars, list_vars, argv, query_time, query_day,
                   exit_code, out_file>>

\* query_time.strftime("%H:%M")
strftime_HM(t) == TwoDigits(t.hour) \o <<":">> \o TwoDigits(t.minute)

\* lines 237-243
result ==
    [query_time |-> strftime_HM(query_time),
     query_day |-> query_day,
     total_places |-> Len(places),
     open_places_count |-> Len(open_places),
     open_places |-> Deref(heap, open_places)]

\* lines 236-248: open() raises OSError for a path that cannot be written
MainSave ==
    /\ pc = "save"
    /\ IF argv.output = "none"
       THEN /\ pc' = "return"
            /\ UNCHANGED <<error, out_file>>
       ELSE IF argv.output = "unwritable"
       THEN /\ pc' = "except"
            /\ error' = "OSError"
            /\ UNCHANGED out_file
       ELSE /\ pc' = "return"
            /\ out_file' = Append(out_file, result)
            /\ UNCHANGED error
    /\ UNCHANGED <<call_vars, list_vars, argv, query_time, query_day,
                   exit_code>>

\* lines 250-252: except Exception: print, sys.exit(1)
MainExcept ==
    /\ pc = "except"
    /\ pc' = "exited"
    /\ exit_code' = 1
    /\ UNCHANGED <<call_vars, list_vars, argv, query_time, query_day, error,
                   out_file>>

\* main returns and the interpreter exits with status 0
MainReturn ==
    /\ pc = "return"
    /\ pc' = "exited"
    /\ exit_code' = 0
    /\ UNCHANGED <<call_vars, list_vars, argv, query_time, query_day, error,
                   out_file>>

Next ==
    \/ ParseTimeCall
    \/ ParseDayCall
    \/ ParseHoursCall
    \/ IsPlaceOpenCall
    \/ FilterOpenPlacesCall
    \/ MainParseArgs
    \/ MainParseTime
    \/ MainParseDay
    \/ MainLoad
    \/ MainFilter
    \/ MainDisplay
    \/ MainSave
    \/ MainExcept
    \/ MainReturn

Spec == Init /\ [][Next]_vars

(***************************************************************************)
(* What the listed segments stand for, used to state the properties.       *)
(***************************************************************************)
AsTime(hm) == [raised |-> FALSE, hour |-> hm.hour, minute |-> hm.minute]

\* the intervals of the range segments, in segment order
RECURSIVE ExpectedRanges(_)
ExpectedRanges(segs) ==
    IF segs = <<>> THEN <<>>
    ELSE (IF SegmentPool[Head(segs)].kind = "range"
          THEN << <<AsTime(SegmentPool[Head(segs)].open),
                    AsTime(SegmentPool[Head(segs)].close)>> >>
          ELSE <<>>)
         \o ExpectedRanges(Tail(segs))

\* the text of segment k as parse_hours_string sees it: after the day
\* prefix when it is the first segment of a whole entry
SegmentText(segs, k, whole_entry) ==
    (IF whole_entry /\ k = 1 THEN Monday \o <<":", " ">> ELSE <<>>)
    \o SegmentPool[segs[k]].text

\* one warning for each segment from k on whose kind is in kinds
RECURSIVE WarningsFor(_, _, _, _)
WarningsFor(segs, k, whole_entry, kinds) ==
    IF k > Len(segs) THEN <<>>
    ELSE (IF SegmentPool[segs[k]].kind \in kinds
          THEN <<[warning |-> SegmentText(segs, k, whole_entry)]>>
          ELSE <<>>)
         \o WarningsFor(segs, k + 1, whole_entry, kinds)

\* no segment is one of the two special cases
PlainSchedule(segs) == Kinds(segs) \cap {"closed", "24 hours"} = {}

\* the intervals a schedule of listed segments stands for
ScheduleRanges(segs) ==
    IF "closed" \in Kinds(segs) THEN <<>>
    ELSE IF "24 hours" \in Kinds(segs)
    THEN << <<time(0, 0), time(23, 59)>> >>
    ELSE ExpectedRanges(segs)

\* the time t lies in one of the intervals, both ends inclusive
InSomeInterval(ranges, t) ==
    \E i \in 1..Len(ranges) :
        /\ TimeLE(ranges[i][1], t)
        /\ TimeLE(t, ranges[i][2])

\* a place record without its hours key
WithoutHours(place) == [k \in (DOMAIN place) \ {"hours"} |-> place[k]]

\* the records of the open places of a list, in order, hours removed
RECURSIVE ExpectedOpen(_, _, _)
ExpectedOpen(list, t, day) ==
    IF list = <<>> THEN <<>>
    ELSE (IF is_place_open(Head(list), t, day)
          THEN <<WithoutHours(Head(list))>>
          ELSE <<>>)
         \o ExpectedOpen(Tail(list), t, day)

\* the entries of an hours list that begin with "<day>:"
DayEntries(hours, day) ==
    {k \in 1..Len(hours) : startswith(hours[k], day \o <<":">>)}

FirstDayEntry(hours, day) ==
    CHOOSE k \in DayEntries(hours, day) :
        \A j \in DayEntries(hours, day) : k <= j

(***************************************************************************)
(* C1.  For the split-shift entry "11:00 AM - 2:00 PM, 5:00 - 9:00 PM"     *)
(* (en dashes) parse_hours_string yields exactly two intervals, and        *)
(* is_place_open is open at 1:00 PM, open at 6:00 PM and closed at         *)
(* 3:00 PM.                                                                *)
(***************************************************************************)
C1_SplitShift ==
    /\ (op = "parse_hours_string" /\ arg.segs = <<1, 2>>)
           => Len(ret.time_ranges) = 2
    /\ (op = "is_place_open" /\ arg.segs = <<1, 2>>) =>
           /\ arg.query_time = time(13, 0) => ret = TRUE
           /\ arg.query_time = time(18, 0) => ret = TRUE
           /\ arg.query_time = time(15, 0) => ret = FALSE

(***************************************************************************)
(* C2.  For a place with an entry for the queried day, is_place_open is    *)
(* true exactly when the query time lies in [open, close], both ends       *)
(* inclusive, of an interval parsed from that entry, without wraparound    *)
(* across midnight; with "Monday: 9:00 AM - 5:00 PM", 9:00 AM and 5:00 PM  *)
(* are open and 5:01 PM is closed.                                         *)
(***************************************************************************)
C2_OpenIffInInterval ==
    op = "is_place_open" =>
        /\ (arg.segs = <<>>
            /\ "hours" \in DOMAIN arg.place
            /\ DayEntries(arg.place["hours"], arg.query_day) # {})
           => ret = InSomeInterval(
                        parse_hours_string(
                            arg.place["hours"][FirstDayEntry(
                                arg.place["hours"], arg.query_day)]).time_ranges,
                        arg.query_time)
        /\ arg.segs # <<>>
           => ret = InSomeInterval(ScheduleRanges(arg.segs), arg.query_time)
        /\ arg.segs = <<3>> =>
               /\ arg.query_time = time(9, 0) => ret = TRUE
               /\ arg.query_time = time(17, 0) => ret = TRUE
               /\ arg.query_time = time(17, 1) => ret = FALSE
        /\ arg.segs = <<5>> => ret = FALSE

C2_Witness ==
    /\ op = "is_place_open"
    /\ arg.segs = <<3>>
    /\ arg.query_time = time(17, 0)
    /\ ret = TRUE

(***************************************************************************)
(* C3 as stated.  A schedule string containing "24 hours" in any casing    *)
(* makes parse_hours_string return exactly the interval [00:00, 23:59].    *)
(***************************************************************************)
C3_Original ==
    (op = "parse_hours_string" /\ "24 hours" \in Kinds(arg.segs))
        => ret.time_ranges = << <<time(0, 0), time(23, 59)>> >>

(***************************************************************************)
(* C3 as amended.  A schedule string containing "24 hours" in any casing   *)
(* and not containing "closed" makes parse_hours_string return exactly     *)
(* the interval [00:00, 23:59].                                            *)
(***************************************************************************)
C3_TwentyFourHours ==
    (/\ op = "parse_hours_string"
     /\ "24 hours" \in Kinds(arg.segs)
     /\ "closed" \notin Kinds(arg.segs))
        => ret.time_ranges = << <<time(0, 0), time(23, 59)>> >>

C3_Witness ==
    /\ op = "parse_hours_string"
    /\ arg.segs = <<3, 11>>
    /\ ret.time_ranges = << <<time(0, 0), time(23, 59)>> >>

(***************************************************************************)
(* C4.  A schedule string containing "closed" in any casing makes          *)
(* parse_hours_string return no interval whatever else it contains, and    *)
(* the place is closed at every query time on that day.                    *)
(***************************************************************************)
C4_ClosedWins ==
    /\ (op = "parse_hours_string" /\ "closed" \in Kinds(arg.segs))
           => ret.time_ranges = <<>>
    /\ (op = "is_place_open" /\ arg.segs # <<>>
        /\ "closed" \in Kinds(arg.segs))
           => ret = FALSE

C4_Witness ==
    /\ op = "parse_hours_string"
    /\ arg.segs = <<10, 9>>
    /\ ret.time_ranges = <<>>

(***************************************************************************)
(* C5.  is_place_open is false when the place has no hours field, an       *)
(* empty hours list, or no entry beginning with "<query_day>:"; when       *)
(* several entries begin with it, the first one alone decides.             *)
(***************************************************************************)
C5_MissingDayClosed ==
    op = "is_place_open" =>
        IF "hours" \notin DOMAIN arg.place THEN ret = FALSE
        ELSE IF DayEntries(arg.place["hours"], arg.query_day) = {}
        THEN ret = FALSE
        ELSE Len(arg.place["hours"]) > 1 => ret = is_place_open(
                       [hours |-> <<arg.place["hours"][FirstDayEntry(
                                       arg.place["hours"], arg.query_day)]>>],
                       arg.query_time, arg.query_day)

C5_Witness ==
    /\ op = "is_place_open"
    /\ "hours" \in DOMAIN arg.place
    /\ DayEntries(arg.place["hours"], arg.query_day) = {1, 2}
    /\ ret = TRUE
    /\ ~is_place_open([hours |-> <<arg.place["hours"][2]>>],
                      arg.query_time, arg.query_day)

(***************************************************************************)
(* C6.  filter_open_places returns, in input order, one record for each    *)
(* input place that is_place_open finds open and none for the others;      *)
(* each record is its input record without the hours key.                  *)
(***************************************************************************)
C6_FilterResult ==
    /\ op = "filter_open_places" =>
           /\ ret = ExpectedOpen(arg.places, arg.query_time, arg.query_day)
           /\ \A k \in 1..Len(ret) : "hours" \notin DOMAIN ret[k]
    /\ (op = "main" /\ pc \in {"display", "save", "return"}) =>
           /\ Deref(heap, open_places)
                  = ExpectedOpen(argv.file.data["places"],
                                 query_time, query_day)
           /\ \A k \in 1..Len(open_places) :
                  "hours" \notin DOMAIN heap[open_places[k]]

C6_Witness ==
    /\ op = "filter_open_places"
    /\ Len(arg.places) = 2
    /\ Len(ret) = 1
    /\ "hours" \in DOMAIN arg.places[2]
    /\ ret[1] = WithoutHours(arg.places[2])

(***************************************************************************)
(* C7.  In a run of main any error (input file not found, malformed JSON,  *)
(* success missing or false, places missing, unparseable time or day)      *)
(* ends the process with a non-zero exit status and the output file is     *)
(* not written in that run; the output file is written only after time     *)
(* parsing, day parsing, loading and filtering have succeeded; a run       *)
(* without error exits zero.                                               *)
(***************************************************************************)
BadTimeArgs == { <<"2", "5", ":", "0", "0">>, <<"n", "o", "o", "n">> }

BadDayArgs == { <<"F", "u", "n", "d", "a", "y">> }

BadFile(file) ==
    \/ file.kind \in {"missing", "malformed"}
    \/ "success" \notin DOMAIN file.data
    \/ "places" \notin DOMAIN file.data
    \/ ~file.data["success"]

BadInput ==
    \/ argv.time \in BadTimeArgs
    \/ argv.day \in BadDayArgs
    \/ BadFile(argv.file)

C7_ErrorsExitNonZero ==
    op = "main" =>
        /\ (pc = "exited" /\ BadInput) => (exit_code = 1 /\ out_file = <<>>)
        /\ error # "" => out_file = <<>>
        /\ (pc = "exited" /\ error # "") => exit_code = 1
        /\ (pc = "exited" /\ error = "") => exit_code = 0
        /\ out_file # <<>> =>
               /\ ~BadInput
               /\ Len(out_file) = 1
               /\ query_time = parse_time(argv.time)
               /\ query_day = parse_day(argv.day).day
               /\ out_file[1].total_places = Len(argv.file.data["places"])
               /\ out_file[1].open_places
                      = ExpectedOpen(argv.file.data["places"],
                                     query_time, query_day)

C7_Witness ==
    /\ op = "main"
    /\ pc = "exited"
    /\ argv.file.kind = "malformed"
    /\ argv.output = "writable"
    /\ exit_code = 1
    /\ out_file = <<>>

C9_Original ==
    (op = "parse_hours_string" /\ PlainSchedule(arg.segs)) =>
        /\ ret.time_ranges = ExpectedRanges(arg.segs)
        /\ ret.stdout = WarningsFor(arg.segs, 1, arg.whole_entry,
                                    {"nomatch", "unparsable"})

(***************************************************************************)
(* C9 as amended.  In parse_hours_string a segment that does not match     *)
(* the pattern is skipped without a warning, a segment that matches but    *)
(* whose times cannot be parsed is skipped with a warning for it, and the  *)
(* other segments are parsed, in segment order.                            *)
(***************************************************************************)
C9_SegmentsSkipped ==
    (op = "parse_hours_string" /\ PlainSchedule(arg.segs)) =>
        /\ ret.time_ranges = ExpectedRanges(arg.segs)
        /\ ret.stdout = WarningsFor(arg.segs, 1, arg.whole_entry,
                                    {"unparsable"})

C9_Witness ==
    /\ op = "parse_hours_string"
    /\ arg.segs = <<8, 3>>
    /\ Len(ret.stdout) = 1
    /\ ret.time_ranges = << <<time(9, 0), time(17, 0)>> >>

(***************************************************************************)
(* C10.  filter_open_places (and is_place_open, which it calls for every   *)
(* place) leaves its input unchanged: the list has the same length and     *)
(* order and every place record keeps all its keys, hours included, with   *)
(* the same values, whether the place was emitted or not.                  *)
(***************************************************************************)
C10_InputUnchanged ==
    /\ op = "filter_open_places" =>
           /\ Len(places) = Len(arg.places)
           /\ Deref(heap, places) = arg.places
    /\ (op = "main" /\ pc \in {"display", "save", "return"}) =>
           /\ Len(places) = Len(argv.file.data["places"])
           /\ Deref(heap, places) = argv.file.data["places"]

C10_Witness ==
    /\ op = "filter_open_places"
    /\ Len(arg.places) = 2
    /\ Len(open_places) = 2
    /\ "hours" \in DOMAIN heap[places[1]]
    /\ heap[places[1]] = arg.places[1]
    /\ heap[open_places[1]] = WithoutHours(arg.places[1])

=============================================================================
